---- MODULE Spec2Model ----
(***************************************************************************)
(* LSB steganography decoder of prime.py.                                  *)
(*                                                                         *)
(* The script loads a JSON pixel grid (rows of pixels of channel values),  *)
(* appends str(channel & 1) for every channel in a triple nested loop,     *)
(* then cuts the bit string into 8-character groups, turns each full group *)
(* into chr(int(group, 2)) and stops after 16 characters.                  *)
(*                                                                         *)
(* A JSON value is a record [type, val]: type is the Python type that      *)
(* json.load gives it ("int", "bool", "float", "null"), val its numeric    *)
(* value (0 for null, the integral part for a float).  A Python character  *)
(* is identified with its code point, a str with the sequence of its code  *)
(* points; the one-character strings "0" and "1" are the code points 48    *)
(* and 49.                                                                 *)
(***************************************************************************)
EXTENDS Integers, Sequences, FiniteSets, TLC

(***************************************************************************)
(* Bounds of the input space.                                              *)
(***************************************************************************)
MaxRows == 2
MaxPixels == 3
MaxChannels == 4
MaxSeed == 5
MaxLargeSeed == 1
MaxInjPos == 9
ExtraRows == 2

(***************************************************************************)
(* Program constants.                                                      *)
(***************************************************************************)
ByteLen == 8
\* A cutoff that lets one character too many through.
MsgLenOff == 16 + 1
MsgLen == 16
Radix == 2
OrdZero == 48

(***************************************************************************)
(* Input grids.  A shape is a sequence of rows, a row a sequence of        *)
(* channel counts (one per pixel).                                         *)
(***************************************************************************)
Rect(R, P, C) == [r \in 1..R |-> [p \in 1..P |-> C]]

RECURSIVE SumSeq(_)
SumSeq(s) ==
  IF s = <<>> THEN 0
  ELSE IF Len(s) = 1 THEN s[1]
  ELSE LET h == Len(s) \div 2 IN
       SumSeq(SubSeq(s, 1, h)) + SumSeq(SubSeq(s, h + 1, Len(s)))

RowSize(row) == SumSeq(row)

ShapeSize(shape) == SumSeq([k \in 1..Len(shape) |-> RowSize(shape[k])])

\* Number of channels that precede pixel p of row r in the traversal.
Offset(shape, r, p) ==
  ShapeSize(SubSeq(shape, 1, r - 1)) + SumSeq(SubSeq(shape[r], 1, p - 1))

Pow2(n) == IF n = 0 THEN 1 ELSE IF n = 1 THEN 2 ELSE IF n = 2 THEN 4
           ELSE IF n = 3 THEN 8 ELSE IF n = 4 THEN 16 ELSE IF n = 5 THEN 32
           ELSE IF n = 6 THEN 64 ELSE 128

Hash(seed, k) == (seed * 131 + k * 197 + seed * k * 31 + (k \div 8) * 57 + 89) % 251

\* The integer stored at flat position k (0-based) of the grid of a seed: the
\* first eight low bits spell the byte seed % 256, the rest is scrambled.
IntAt(seed, k) ==
  IF k < 8
    THEN 2 * (Hash(seed, k) % 128) + (((seed % 256) \div Pow2(7 - k)) % 2)
    ELSE (Hash(seed, k) * 3 + (Hash(seed, k) \div 16)) % 256

JInt(n) == [type |-> "int", val |-> n]

NoInj == [pos |-> -1, ch |-> JInt(0)]

ValueAt(seed, inj, k) == IF k = inj.pos THEN inj.ch ELSE JInt(IntAt(seed, k))

MakeGrid(shape, seed, inj) ==
  [r \in 1..Len(shape) |->
    [p \in 1..Len(shape[r]) |->
      [c \in 1..shape[r][p] |-> ValueAt(seed, inj, Offset(shape, r, p) + c - 1)]]]

SmallShapes ==
  {Rect(R, P, C) : R \in 0..MaxRows, P \in 0..MaxPixels, C \in 0..MaxChannels}

\* Rows of different pixel counts, pixels of different channel counts.
RaggedShapes ==
  { <<<<3, 3>>, <<3>>>>, <<<<3>>, <<3, 3, 3>>>>, <<<<3, 4>>, <<1, 3>>>>,
    <<<<1, 2, 3>>, <<>>, <<3, 0, 3>>>>, <<<<4, 4, 3>>, <<3, 3>>, <<3, 4>>>>,
    <<<<2>>, <<3, 3>>>>, <<<<2, 3>>>> }

ByteShape == Rect(1, 3, 3)

\* Five scannable bits.
ShortShape == Rect(1, 5, 1)

\* Grids around the capacity of 16 characters (128 bits).
LargeShapes ==
  { Rect(10, 4, 3), Rect(127, 1, 1), Rect(4, 8, 4), Rect(43, 1, 3),
    Rect(5, 9, 3), Rect(17, 2, 4), Rect(1, 137, 1) }
  \cup {Rect(10 + e, 4, 3) : e \in 1..ExtraRows}

OddChannels ==
  { JInt(-1), JInt(-2), JInt(256), JInt(257), [type |-> "bool", val |-> 1],
    [type |-> "bool", val |-> 0], [type |-> "float", val |-> 1],
    [type |-> "null", val |-> 0] }

InjShapes == {Rect(1, 3, 3), Rect(2, 2, 3), <<<<3, 3>>, <<3>>>>}

Inputs ==
  {<<s, d, NoInj>> : s \in SmallShapes \cup RaggedShapes, d \in 0..MaxSeed}
  \cup {<<ByteShape, d, NoInj>> : d \in 0..255}
  \cup {<<ShortShape, d, NoInj>> : d \in 0..MaxSeed}
  \cup {<<s, d, NoInj>> : s \in LargeShapes, d \in 0..MaxLargeSeed}
  \cup {<<s, 72, [pos |-> k, ch |-> ch]>> :
          s \in InjShapes, k \in 0..MaxInjPos, ch \in OddChannels}

(***************************************************************************)
(* State of the script.                                                    *)
(***************************************************************************)
VARIABLES
  pixels,    \* data["pixels"]
  bits,      \* the bit string (code points of "0" / "1")
  message,   \* the decoded message (code points)
  r, p, c,   \* positions of the three nested for loops (items taken so far)
  i,         \* loop variable of the byte loop
  pc,        \* control position
  exit,      \* statement through which the byte loop was left
  reads,     \* number of channel values taken from the grid
  stdout     \* the lines print() wrote

vars == <<pixels, bits, message, r, p, c, i, pc, exit, reads, stdout>>

Init ==
  /\ \E in \in Inputs : pixels = MakeGrid(in[1], in[2], in[3])
  /\ bits = <<>>
  /\ message = <<>>
  /\ r = 0 /\ p = 0 /\ c = 0
  /\ i = 0
  /\ pc = "row"
  /\ exit = "none"
  /\ reads = 0
  /\ stdout = <<>>

(***************************************************************************)
(* Python primitives.                                                      *)
(***************************************************************************)
\* An operand check that lets every JSON value through.
AndDefinedLoose(ch) == ch.type \in {"int", "bool", "float", "null"}

\* int & int is defined for int and bool operands; anything else raises
\* TypeError.
AndDefined(ch) == ch.type \in {"int", "bool"}

\* (channel >> 1) & 1: the bit above the lowest one.
LSBSecondBit(ch) == (ch.val \div 2) % 2

\* channel & 1 on Python's unbounded two's-complement integers.
LSB(ch) == ch.val % 2

\* str(d) for d in {0, 1}: the one-character string of the digit.
StrDigit(d) == <<OrdZero + d>>

\* A parse that weighs the first digit lowest.
RECURSIVE IntBase2LsbFirst(_)
IntBase2LsbFirst(s) ==
  IF s = <<>> THEN 0
  ELSE (Head(s) - OrdZero) + Radix * IntBase2LsbFirst(Tail(s))

\* int(s, 2) for a string of binary digits.
RECURSIVE IntBase2(_)
IntBase2(s) ==
  IF s = <<>> THEN 0
  ELSE Radix * IntBase2(SubSeq(s, 1, Len(s) - 1)) + (s[Len(s)] - OrdZero)

\* chr(n): the one-character string whose code point is n.
Chr(n) == <<n>>

\* A slice that pads a short tail with "0".
SlicePad(s, a, b) ==
  [k \in 1..(IF a < Len(s) THEN b - a ELSE 0) |->
     IF a + k <= Len(s) THEN s[a + k] ELSE OrdZero]

\* s[a:b] for 0 <= a <= b.
Slice(s, a, b) ==
  SubSeq(s, a + 1, IF b < Len(s) THEN b ELSE Len(s))

(***************************************************************************)
(* Step 2: the extraction loops (lines 10-15).                             *)
(***************************************************************************)
\* An extraction that stops taking rows once 16 characters' worth of bits
\* is there.
RowLoopLazy ==
  /\ pc = "row"
  /\ IF r < Len(pixels) /\ Len(bits) < MsgLen * ByteLen
       THEN /\ r' = r + 1
            /\ p' = 0
            /\ pc' = "pixel"
            /\ UNCHANGED <<message, i>>
       ELSE /\ message' = <<>>
            /\ i' = 0
            /\ pc' = "bytes"
            /\ UNCHANGED <<r, p>>
  /\ UNCHANGED <<pixels, bits, c, exit, reads, stdout>>

RowLoop ==
  /\ pc = "row"
  /\ IF r < Len(pixels)
       THEN /\ r' = r + 1
            /\ p' = 0
            /\ pc' = "pixel"
            /\ UNCHANGED <<message, i>>
       ELSE /\ message' = <<>>
            /\ i' = 0
            /\ pc' = "bytes"
            /\ UNCHANGED <<r, p>>
  /\ UNCHANGED <<pixels, bits, c, exit, reads, stdout>>

\* A pixel loop that refuses a row whose pixel count differs from the first
\* row's.
PixelLoopStrict ==
  /\ pc = "pixel"
  /\ IF Len(pixels[r]) # Len(pixels[1])
       THEN /\ pc' = "InvalidGridError"
            /\ UNCHANGED <<p, c>>
       ELSE IF p < Len(pixels[r])
       THEN /\ p' = p + 1
            /\ c' = 0
            /\ pc' = "channel"
       ELSE /\ pc' = "row"
            /\ UNCHANGED <<p, c>>
  /\ UNCHANGED <<pixels, bits, message, r, i, exit, reads, stdout>>

PixelLoop ==
  /\ pc = "pixel"
  /\ IF p < Len(pixels[r])
       THEN /\ p' = p + 1
            /\ c' = 0
            /\ pc' = "channel"
       ELSE /\ pc' = "row"
            /\ UNCHANGED <<p, c>>
  /\ UNCHANGED <<pixels, bits, message, r, i, exit, reads, stdout>>

ChannelLoop ==
  /\ pc = "channel"
  /\ IF c < Len(pixels[r][p])
       THEN /\ c' = c + 1
            /\ reads' = reads + 1
            /\ IF AndDefined(pixels[r][p][c + 1])
                 THEN /\ bits' = bits \o StrDigit(LSB(pixels[r][p][c + 1]))
                      /\ pc' = "channel"
                 ELSE /\ pc' = "TypeError"
                      /\ UNCHANGED bits
       ELSE /\ pc' = "pixel"
            /\ UNCHANGED <<c, reads, bits>>
  /\ UNCHANGED <<pixels, message, r, p, i, exit, stdout>>

(***************************************************************************)
(* Step 3: the byte loop (lines 18-25) and the print (line 27).            *)
(***************************************************************************)
\* A byte loop without the len(byte) < 8 test.
ByteLoopNoShortCheck ==
  /\ pc = "bytes"
  /\ IF i < Len(bits)
       THEN LET byte == Slice(bits, i, i + ByteLen) IN
            /\ message' = message \o Chr(IntBase2(byte))
            /\ IF Len(message') = MsgLen
                 THEN /\ exit' = "break_count"
                      /\ pc' = "print"
                      /\ UNCHANGED i
                 ELSE /\ i' = i + ByteLen
                      /\ UNCHANGED <<pc, exit>>
       ELSE /\ exit' = "range_end"
            /\ pc' = "print"
            /\ UNCHANGED <<message, i>>
  /\ UNCHANGED <<pixels, bits, r, p, c, reads, stdout>>

\* A byte loop that tests the character count before appending.
ByteLoopCountFirst ==
  /\ pc = "bytes"
  /\ IF i < Len(bits)
       THEN LET byte == Slice(bits, i, i + ByteLen) IN
            IF Len(byte) < ByteLen
              THEN /\ exit' = "break_short"
                   /\ pc' = "print"
                   /\ UNCHANGED <<message, i>>
              ELSE IF Len(message) = MsgLen
                   THEN /\ exit' = "break_count"
                        /\ pc' = "print"
                        /\ UNCHANGED <<message, i>>
                   ELSE /\ message' = message \o Chr(IntBase2(byte))
                        /\ i' = i + ByteLen
                        /\ UNCHANGED <<pc, exit>>
       ELSE /\ exit' = "range_end"
            /\ pc' = "print"
            /\ UNCHANGED <<message, i>>
  /\ UNCHANGED <<pixels, bits, r, p, c, reads, stdout>>

ByteLoop ==
  /\ pc = "bytes"
  /\ IF i < Len(bits)
       THEN LET byte == Slice(bits, i, i + ByteLen) IN
            IF Len(byte) < ByteLen
              THEN /\ exit' = "break_short"
                   /\ pc' = "print"
                   /\ UNCHANGED <<message, i>>
              ELSE /\ message' = message \o Chr(IntBase2(byte))
                   /\ IF Len(message') = MsgLen
                        THEN /\ exit' = "break_count"
                             /\ pc' = "print"
                             /\ UNCHANGED i
                        ELSE /\ i' = i + ByteLen
                             /\ UNCHANGED <<pc, exit>>
       ELSE /\ exit' = "range_end"
            /\ pc' = "print"
            /\ UNCHANGED <<message, i>>
  /\ UNCHANGED <<pixels, bits, r, p, c, reads, stdout>>

PrintMessage ==
  /\ pc = "print"
  /\ stdout' = Append(stdout, [label |-> "Extracted message:", text |-> message])
  /\ pc' = "done"
  /\ UNCHANGED <<pixels, bits, message, r, p, c, i, exit, reads>>

Next == RowLoop \/ PixelLoop \/ ChannelLoop \/ ByteLoop \/ PrintMessage

Spec == Init /\ [][Next]_vars

\* The interpreter runs the script to its end: every enabled step is taken.
FairSpec == Spec /\ WF_vars(Next)

\* The two ways a completed run left the byte loop.
CompletedByPolicy == pc = "done" /\ exit = "break_count"
CompletedByExhaustion == pc = "done" /\ exit \in {"break_short", "range_end"}

TypeOK ==
  /\ pc \in {"row", "pixel", "channel", "bytes", "print", "done", "TypeError"}
  /\ exit \in {"none", "break_short", "break_count", "range_end"}
  /\ \A k \in 1..Len(bits) : bits[k] \in {OrdZero, OrdZero + 1}

(***************************************************************************)
(* Vocabulary of the properties.                                           *)
(***************************************************************************)
\* Concatenation of a sequence of sequences, by halves.
RECURSIVE Concat(_)
Concat(ss) ==
  IF ss = <<>> THEN <<>>
  ELSE IF Len(ss) = 1 THEN ss[1]
  ELSE LET h == Len(ss) \div 2 IN
       Concat(SubSeq(ss, 1, h)) \o Concat(SubSeq(ss, h + 1, Len(ss)))

\* The channel values in row-major, then pixel, then channel order.
Flat(grid) == Concat([k \in 1..Len(grid) |-> Concat(grid[k])])

\* Parity of an integer, without the model's LSB.
LowBit(n) == n - 2 * (n \div 2)

\* The low bits of the whole grid in traversal order.
FlatBits ==
  LET flat == Flat(pixels) IN [k \in 1..Len(flat) |-> LowBit(flat[k].val)]

\* The digit values of the bit string.
Digits == [k \in 1..Len(bits) |-> bits[k] - 48]

\* The j-th group of eight of a 0/1 sequence, first bit weighing 128.
ByteAt(bs, j) ==
  LET b(k) == bs[8 * (j - 1) + k] IN
  b(1) * 128 + b(2) * 64 + b(3) * 32 + b(4) * 16 + b(5) * 8 + b(6) * 4
    + b(7) * 2 + b(8)

Min(a, b) == IF a < b THEN a ELSE b

ExtractionDone == pc \in {"bytes", "print", "done"}
DecodingDone == pc \in {"print", "done"}

Integral(ch) == ch.type \in {"int", "bool"}
AllIntegral ==
  LET flat == Flat(pixels) IN \A k \in 1..Len(flat) : Integral(flat[k])

\* Every row has the pixel count of the first row and every pixel the
\* channel count of the first pixel.
Uniform(grid) ==
  /\ \A a \in 1..Len(grid) : Len(grid[a]) = Len(grid[1])
  /\ \A a \in 1..Len(grid) :
       \A x \in 1..Len(grid[a]) : Len(grid[a][x]) = Len(grid[1][1])

(***************************************************************************)
(* C1.  The bit string is the sequence of low bits (value & 1, as "0" or   *)
(* "1") of the channel values in row-major, then pixel, then channel       *)
(* order: its k-th character is the low bit of the k-th channel of that    *)
(* traversal and depends on no higher bit; once the extraction loops are   *)
(* over it covers every channel of the grid.                               *)
(***************************************************************************)
C1_BitStreamIsLowBits ==
  LET flat == Flat(pixels) IN
  /\ Len(bits) <= Len(flat)
  /\ \A k \in 1..Len(bits) : bits[k] = 48 + LowBit(flat[k].val)
  /\ ExtractionDone => Len(bits) = Len(flat)

\* A grid of two rows was scanned: it holds an odd value above 1 read as "1"
\* and an even value above 1 read as "0".
C1_Witness ==
  /\ pc = "done"
  /\ Len(pixels) = 2
  /\ Len(bits) >= 9
  /\ LET flat == Flat(pixels) IN
     /\ \E k \in 1..Len(bits) : flat[k].val > 2 /\ bits[k] = 49
     /\ \E k \in 1..Len(bits) : flat[k].val > 2 /\ bits[k] = 48

(***************************************************************************)
(* C2.  Each group of 8 consecutive bits b0..b7 of the stream, whatever    *)
(* pixel or row they come from, becomes the character of code point        *)
(* b0*128 + b1*64 + ... + b7, the i-th character from the i-th group; no   *)
(* value in 0..255 is filtered out: every full group up to the character   *)
(* count yields its character.                                             *)
(***************************************************************************)
C2_MsbFirstPacking ==
  /\ \A j \in 1..Len(message) :
       /\ 8 * j <= Len(bits)
       /\ message[j] = ByteAt(Digits, j)
       /\ message[j] \in 0..255
  /\ DecodingDone /\ exit # "break_count" => Len(message) = Len(bits) \div 8

\* The low bits 0,1,0,0,1,0,0,0, spread over three pixels, gave 'H' (0x48).
C2_Witness ==
  /\ pc = "done"
  /\ Len(pixels) = 1 /\ Len(pixels[1]) = 3
  /\ message = <<72>>
  /\ SubSeq(Digits, 1, 8) = <<0, 1, 0, 0, 1, 0, 0, 0>>

(***************************************************************************)
(* C3.  The message never has more than 16 characters, and when the stream *)
(* holds at least 128 bits the byte loop is left right after the 16th      *)
(* append: the final message is the 16 characters of the first 128 bits,   *)
(* whatever follows them.                                                  *)
(***************************************************************************)
C3_SixteenCharacterCutoff ==
  /\ Len(message) <= 16
  /\ DecodingDone /\ Len(bits) >= 128 =>
       /\ exit = "break_count"
       /\ i = 120
       /\ LET fb == FlatBits IN message = [j \in 1..16 |-> ByteAt(fb, j)]
  /\ pc = "done" /\ Len(bits) >= 128 =>
       stdout = <<[label |-> "Extracted message:", text |-> message]>>

\* A stream longer than 128 bits was cut at 16 characters.
C3_Witness ==
  /\ pc = "done"
  /\ Len(bits) > 136
  /\ Len(message) = 16

(***************************************************************************)
(* C4 as stated.  When the stream length L is not a multiple of 8 the      *)
(* byte sequence formed from it has exactly floor(L / 8) bytes.            *)
(***************************************************************************)
C4_Original ==
  DecodingDone /\ Len(bits) % 8 # 0 => Len(message) = Len(bits) \div 8

(***************************************************************************)
(* C4 as amended.  When the stream length L is not a multiple of 8 the     *)
(* byte loop forms min(floor(L / 8), 16) bytes, that is floor(L / 8)       *)
(* unless the 16-character cutoff comes first; every character comes from  *)
(* a full group of 8 bits, the trailing L mod 8 bits produce no padded or  *)
(* partial byte, and the run goes on to print the message: dropping them   *)
(* is no error.                                                            *)
(***************************************************************************)
C4_TrailingBitsDropped ==
  /\ \A j \in 1..Len(message) : 8 * j <= Len(bits)
  /\ DecodingDone /\ Len(bits) % 8 # 0 =>
       /\ Len(message) = Min(Len(bits) \div 8, 16)
       /\ exit \in {"break_short", "break_count"}
  /\ exit = "break_short" =>
       /\ pc \in {"print", "done"}
       /\ Len(bits) - i \in 1..7
       /\ Len(message) = Len(bits) \div 8
  /\ pc = "done" /\ exit = "break_short" =>
       stdout = <<[label |-> "Extracted message:", text |-> message]>>

\* A stream of 9 to 15 bits gave one character and lost its tail.
C4_Witness ==
  /\ pc = "done"
  /\ exit = "break_short"
  /\ Len(bits) \in 9..15
  /\ Len(message) = 1

(***************************************************************************)
(* C5 as stated.  When the byte loop stops at the 16th character, no       *)
(* channel beyond the first 128 of the traversal has been read.            *)
(***************************************************************************)
C5_Original == exit = "break_count" => reads <= 128

(***************************************************************************)
(* C5 as amended.  The cutoff does not shorten the grid traversal: the     *)
(* byte loop starts only when every channel of the grid has been read, so  *)
(* when it stops at the 16th character the whole grid has been scanned and *)
(* the bits after the 128th are discarded; the cutoff short-circuits the   *)
(* byte loop alone, which has looked at the first 128 bits and no more.    *)
(***************************************************************************)
C5_FullScanBeforeCutoff ==
  /\ ExtractionDone =>
       /\ reads = Len(Flat(pixels))
       /\ Len(bits) = reads
  /\ exit = "break_count" =>
       /\ reads >= 128
       /\ i + 8 = 128
       /\ Len(message) = 16

\* The cutoff fired on a grid of more than 128 channels, all of them read.
C5_Witness ==
  /\ exit = "break_count"
  /\ reads > 128
  /\ reads = Len(Flat(pixels))

(***************************************************************************)
(* C6 as stated.  A channel value that is not a non-negative integer, or   *)
(* lies outside 0..255, makes decoding fail with InvalidPixelValueError    *)
(* when it is read, and no bit is extracted from it.                       *)
(***************************************************************************)
InContract(ch) == ch.type = "int" /\ ch.val \in 0..255

C6_Original ==
  LET flat == Flat(pixels) IN
  \A k \in 1..reads :
    ~InContract(flat[k]) => pc = "InvalidPixelValueError" /\ Len(bits) < k

(***************************************************************************)
(* C6 as amended.  A channel value that is not an integer (a float, a      *)
(* null) makes decoding fail with TypeError at the point the value is      *)
(* read: no bit is extracted from it, nothing is read after it and no      *)
(* message is produced.  An integer outside 0..255 (negative or above 255) *)
(* and a boolean are not rejected: their low bit joins the stream like any *)
(* other.  There is no InvalidPixelValueError.                             *)
(***************************************************************************)
C6_TypeErrorOnNonInteger ==
  LET flat == Flat(pixels) IN
  /\ \A k \in 1..reads :
       IF Integral(flat[k])
         THEN Len(bits) >= k /\ bits[k] = 48 + LowBit(flat[k].val)
         ELSE /\ pc = "TypeError"
              /\ reads = k
              /\ Len(bits) = k - 1
              /\ message = <<>>
              /\ stdout = <<>>
  /\ pc = "TypeError" => reads >= 1 /\ ~Integral(flat[reads])

\* A non-integer value was met after some bits had been extracted.
C6_Witness ==
  /\ pc = "TypeError"
  /\ Len(bits) >= 2
  /\ reads = Len(bits) + 1

(***************************************************************************)
(* C7 as stated.  A grid whose rows differ in pixel count, or whose pixels *)
(* differ in channel count, is rejected and never decoded into a message.  *)
(***************************************************************************)
C7_Original == ~Uniform(pixels) => stdout = <<>>

(***************************************************************************)
(* C7 as amended.  A grid whose rows differ in pixel count, or whose       *)
(* pixels differ in channel count, is not rejected: there is no            *)
(* InvalidGridError, the only failure is the TypeError of a non-integer    *)
(* channel, and the grid is decoded like any other, into the characters of *)
(* the first min(16, floor(L / 8)) groups of low bits of its channels in   *)
(* traversal order.                                                        *)
(***************************************************************************)
C7_RaggedGridDecoded ==
  ~Uniform(pixels) =>
    /\ pc \in {"row", "pixel", "channel", "bytes", "print", "done", "TypeError"}
    /\ pc = "TypeError" => ~AllIntegral
    /\ pc = "done" =>
         LET fb == FlatBits IN
         stdout = <<[label |-> "Extracted message:",
                     text |-> [j \in 1..Min(16, Len(fb) \div 8) |-> ByteAt(fb, j)]]>>

\* A ragged grid of at least 8 channels was decoded and printed.
C7_Witness ==
  /\ ~Uniform(pixels)
  /\ pc = "done"
  /\ Len(stdout) = 1
  /\ Len(stdout[1].text) >= 1

(***************************************************************************)
(* C9.  A grid of fewer than 8 scannable bits decodes to the empty         *)
(* message and the run completes by exhaustion: a grid of no rows leaves   *)
(* the byte loop at once, a grid of 1 to 7 bits leaves it at the short     *)
(* group, and no partial byte is emitted.                                  *)
(***************************************************************************)
C9_ShortGridEmptyMessage ==
  Len(Flat(pixels)) < 8 =>
    /\ message = <<>>
    /\ exit # "break_count"
    /\ pc = "done" =>
         /\ CompletedByExhaustion
         /\ stdout = <<[label |-> "Extracted message:", text |-> <<>>]>>
         /\ Len(bits) = 0 => exit = "range_end"
         /\ Len(bits) \in 1..7 => exit = "break_short"

\* A grid of five scannable bits ended in exhaustion with nothing decoded.
C9_Witness ==
  /\ CompletedByExhaustion
  /\ Len(bits) = 5
  /\ message = <<>>

(***************************************************************************)
(* C10.  Every run on a grid of integer channels terminates, and a run     *)
(* that completes is in exactly one of two terminal states:                *)
(* CompletedByPolicy, exactly when the 16th character has been appended,   *)
(* or CompletedByExhaustion, exactly when the stream ran out of full bytes *)
(* before the count was reached.  (A run that meets a non-integer channel  *)
(* terminates too, with the TypeError of C6 and no decode result.)         *)
(***************************************************************************)
C10_TerminatesInOneTerminalState ==
  /\ AllIntegral => <>(pc = "done")
  /\ <>(pc \in {"done", "TypeError"})
  /\ [](pc = "done" =>
          /\ CompletedByPolicy \/ CompletedByExhaustion
          /\ ~(CompletedByPolicy /\ CompletedByExhaustion)
          /\ CompletedByPolicy <=> Len(message) = 16
          /\ CompletedByExhaustion <=>
               (Len(message) < 16 /\ Len(message) = Len(bits) \div 8))

\* A run completed by policy on a stream of exactly 128 bits.
C10_Witness ==
  /\ CompletedByPolicy
  /\ Len(bits) = 128
====
